---- MODULE Spec2Model ----
(***************************************************************************)
(* A model of compte_weak_scaling.py: the parameter scan                   *)
(* (compute_sim_parameters), the region pass (deconstruct_log_file) with   *)
(* its file-I/O tracker and block tracker, the statistics of a block       *)
(* (process_block_statistics), the export (create_dataset) and the batch   *)
(* loop of main().                                                         *)
(*                                                                         *)
(* A log line is a sequence of tokens; a token is [k |-> kind, v |-> int]. *)
(* The kinds are the substrings the program's regular expressions look     *)
(* for.  Dates are "01-<dd>-2022" (v = dd); times are whole seconds of the *)
(* day (v = seconds, printed hh:mm:ss.000000).  Floats are exact rationals *)
(* [den, num]; NaN is [den |-> 0, num |-> 0].                              *)
(***************************************************************************)
EXTENDS Integers, Sequences, FiniteSets, TLC

\* ------------------------------------------------------------------ bounds
MaxBody == 4
MaxScan == 5
MaxFiles == 2

\* ------------------------------------------------------------------- state
VARIABLES
    args,               \* the command line: file_writes, blocks, number of files
    pc,                 \* where main() is: main, scan, pass, export, exit, crash
    fidx,               \* index in args["file"] of the file being processed
    file,               \* the lines of that file read so far
    cnt,                \* the 1-based line counter of the running pass
    n_cores, nodes, nxb, nyb, nzb, n_cells_per_block, n_cells,
    blocks, fileIOs,    \* the result store: id -> reference to an object
    chunk, write, IO_id_counter, block_id_counter,
    wall_time_list, dt_list,    \* references to list objects
    block, fileIO,              \* references to the objects being filled
    ioHeap, blockHeap, listHeap,\* the objects themselves, by reference
    csv                 \* what create_dataset has written, one entry per file

params == <<n_cores, nodes, nxb, nyb, nzb, n_cells_per_block, n_cells>>
ioState == <<write, fileIO, IO_id_counter, fileIOs, ioHeap>>
blockState == <<chunk, block, block_id_counter, blocks, blockHeap,
                wall_time_list, dt_list, listHeap>>
vars == <<args, pc, fidx, file, cnt, params, ioState, blockState, csv>>

\* ------------------------------------------------------- program constants
seconds_per_hour == 3600
n_cores_per_node == 48
SecondsPerDay == 86400

None == [t |-> "None", v |-> 0]
IntV(n) == [t |-> "int", v |-> n]
StrV == [t |-> "str", v |-> 0]
DateTime(s) == [t |-> "datetime", v |-> s]
FloatV(s) == [t |-> "float", v |-> s]

\* an exception escaped (err), or nothing was found (val = None)
Raised == [err |-> TRUE, val |-> None]
Absent == [err |-> FALSE, val |-> None]
StepRaised == [dt |-> None, err |-> TRUE, wall_time |-> None]
NoStep == [dt |-> None, err |-> FALSE, wall_time |-> None]
Int0 == IntV(0)

\* ------------------------------------------------------------------ tokens
Tok(kind, val) == [k |-> kind, v |-> val]
Word == Tok("word", 0)

\* re.search(<label>, line)
re_search(kind, line) == \E i \in 1..Len(line) : line[i].k = kind

RECURSIVE SelectKinds(_, _)
SelectKinds(line, kinds) ==
    IF line = <<>> THEN <<>>
    ELSE IF Head(line).k \in kinds
         THEN <<Head(line)>> \o SelectKinds(Tail(line), kinds)
         ELSE SelectKinds(Tail(line), kinds)

\* re.findall(<pattern>, line): the tokens of a kind, in line order
re_findall(kind, line) == SelectKinds(line, {kind})

\* the first run of digits of a token that has one
FirstDigits(tok) ==
    CASE tok.k = "int" -> tok.v
      [] tok.k = "n" -> tok.v
      [] tok.k = "dt" -> tok.v
      [] tok.k = "date" -> 1
      [] tok.k = "time" -> tok.v \div 3600

DigitKinds == {"int", "n", "dt", "date", "time"}

\* re.findall(r"\d+", line)
findall_digits(line) == SelectKinds(line, DigitKinds)

\* the time of day alone, the date dropped
strptime_TimeOnly(dateTok, timeTok) == timeTok.v

\* datetime.strptime(date + " " + time, '%m-%d-%Y %H:%M:%S.%f'), in seconds
\* since 01-01-2022 00:00:00
strptime(dateTok, timeTok) == (dateTok.v - 1) * SecondsPerDay + timeTok.v

\* --------------------------------------------------------------- rationals
RECURSIVE GCD(_, _)
GCD(a, b) == IF b = 0 THEN a ELSE GCD(b, a % b)

Abs(x) == IF x < 0 THEN -x ELSE x

NaN == [den |-> 0, num |-> 0]

\* n / d for d # 0, in lowest terms with a positive denominator
Rat(n, d) ==
    LET g == GCD(Abs(n), Abs(d))
        s == IF d < 0 THEN -1 ELSE 1
    IN [den |-> s * (d \div g), num |-> s * (n \div g)]

RECURSIVE SumSeq(_)
SumSeq(s) == IF s = <<>> THEN 0 ELSE Head(s) + SumSeq(Tail(s))

\* a mean that gives 0.0 for an empty list
np_mean_ZeroOnEmpty(xs) ==
    IF xs = <<>> THEN Rat(0, 1) ELSE Rat(SumSeq(xs), Len(xs))

\* numpy.mean of a list of floats (whole seconds here); NaN when empty
np_mean(xs) == IF xs = <<>> THEN NaN ELSE Rat(SumSeq(xs), Len(xs))

\* numpy.std (population) of a list, kept as the rational under the square
\* root: std = sqrt(np_var); NaN when empty
np_var(xs) ==
    IF xs = <<>> THEN NaN
    ELSE LET n == Len(xs)
             sq == [i \in 1..n |-> xs[i] * xs[i]]
         IN Rat(n * SumSeq(sq) - SumSeq(xs) * SumSeq(xs), n * n)

\* numpy.diff of a list of datetimes, each difference in total_seconds()
np_diff(ts) ==
    IF Len(ts) < 2 THEN <<>>
    ELSE [i \in 1..(Len(ts) - 1) |-> ts[i + 1] - ts[i]]

\* a numpy float divided by an int d > 0
FloatDiv(x, d) == IF x = NaN THEN NaN ELSE Rat(x.num, x.den * d)

Float0 == Rat(0, 1)

\* ------------------------------------------------------------------ classes
\* FLASHLogFileIO.__init__ dropping its argument: every event gets id 0
FLASHLogFileIO_IdZero(write_id) ==
    [start_date |-> StrV, write_id |-> 0, wall_time |-> Int0,
     wall_time_norm |-> Float0, file_type |-> "", core_hours |-> Float0,
     open |-> FALSE, close |-> FALSE]

\* FLASHLogFileIO.__init__
FLASHLogFileIO(write_id) ==
    [start_date |-> StrV, write_id |-> write_id, wall_time |-> Int0,
     wall_time_norm |-> Float0, file_type |-> "", core_hours |-> Float0,
     open |-> FALSE, close |-> FALSE]

\* FLASHLogFileIO.empty
empty(o) ==
    [o EXCEPT !.start_date = StrV, !.wall_time = Int0,
              !.wall_time_norm = Float0, !.file_type = "",
              !.core_hours = Float0, !.open = FALSE, !.close = FALSE]

\* FLASHLogFileIO.open_file
open_file(o) == [o EXCEPT !.open = TRUE, !.close = FALSE]

\* close_file without its `if self.open:` branch
close_file_KeepsOpen(o) == [o EXCEPT !.close = TRUE]

\* FLASHLogFileIO.close_file
close_file(o) == [o EXCEPT !.close = TRUE, !.open = FALSE]

\* FLASHLogBlock.__init__; wall_time and dt become references to list
\* objects (0 = the int 0 of the constructor)
FLASHLogBlock(block_id) ==
    [block_id |-> block_id, core_hours |-> 0, wall_time |-> 0,
     avg_wall_time_diff |-> Float0, std_wall_time_diff |-> Float0,
     avg_wall_time_norm |-> Float0, std_wall_time_norm |-> Float0,
     dt |-> 0, start_date |-> StrV, end_date |-> StrV,
     start_line |-> 0, end_line |-> 0, n_steps |-> 0]

\* -------------------------------------------------------- pattern extractors
\* Each returns [err, val]: err is an uncaught exception (IndexError).

\* search_core_count: the value assigned to n_cores, None when no match
search_core_count(line) ==
    IF re_search("mpi", line)
    THEN LET match_obj == findall_digits(line)
         IN IF match_obj = <<>> THEN Raised
            ELSE [err |-> FALSE, val |-> IntV(FirstDigits(match_obj[1]))]
    ELSE Absent

\* search_block_cell_count
search_block_cell_count(line, block_string) ==
    IF re_search(block_string, line)
    THEN LET match_obj == findall_digits(line)
         IN IF match_obj = <<>> THEN Raised
            ELSE [err |-> FALSE, val |-> IntV(FirstDigits(match_obj[1]))]
    ELSE Absent

\* the timestamp both search_walltime and search_file_write_stats parse:
\* the first time and the first date of the line
ParseWallTime(line) ==
    LET wall_time_obj == re_findall("time", line)
        date_obj == re_findall("date", line)
    IN IF wall_time_obj = <<>> \/ date_obj = <<>>
       THEN Raised
       ELSE [err |-> FALSE, val |-> DateTime(strptime(date_obj[1], wall_time_obj[1]))]

\* search_walltime taking a step line it cannot parse for a line without a
\* step
search_walltime_Lenient(line) ==
    IF re_search("n", line)
    THEN LET wt == ParseWallTime(line)
             dt_obj == re_findall("dt", line)
         IN IF wt.err \/ dt_obj = <<>>
            THEN NoStep
            ELSE [dt |-> FloatV(dt_obj[1].v), err |-> FALSE, wall_time |-> wt.val]
    ELSE NoStep

\* search_walltime: [err, wall_time, dt]
search_walltime(line) ==
    IF re_search("n", line)
    THEN LET wt == ParseWallTime(line)
             dt_obj == re_findall("dt", line)
         IN IF wt.err \/ dt_obj = <<>>
            THEN StepRaised
            ELSE [dt |-> FloatV(dt_obj[1].v), err |-> FALSE, wall_time |-> wt.val]
    ELSE NoStep

\* core-hours of an event multiplied by the core count, as a block's are
io_core_hours_TimesCores(secs) == Rat(secs * n_cores.v, seconds_per_hour)

\* fileIO.core_hours = fileIO.wall_time / seconds_per_hour
io_core_hours(secs) == Rat(secs, seconds_per_hour)

\* search_file_write_stats keeping the first open of an event that is
\* opened again before it is closed
search_file_write_stats_FirstOpen(line, o) ==
    LET wt == ParseWallTime(line)
    IN IF wt.err THEN [err |-> TRUE, o |-> o]
       ELSE IF re_search("open", line)
       THEN IF o.open THEN [err |-> FALSE, o |-> o]
            ELSE [err |-> FALSE,
                  o |-> [open_file(o) EXCEPT !.start_date = wt.val,
                                             !.wall_time = wt.val]]
       ELSE IF re_search("close", line)
       THEN LET o1 == close_file(o)
            IN IF o1.wall_time.t # "datetime"
               THEN [err |-> TRUE, o |-> o1]
               ELSE LET secs == wt.val.v - o1.wall_time.v
                    IN [err |-> FALSE,
                        o |-> [o1 EXCEPT !.wall_time = FloatV(secs),
                                         !.core_hours = io_core_hours(secs)]]
       ELSE [err |-> FALSE, o |-> o]

\* search_file_write_stats: [err, o], o the fileIO object afterwards
search_file_write_stats(line, o) ==
    LET wt == ParseWallTime(line)
    IN IF wt.err THEN [err |-> TRUE, o |-> o]
       ELSE IF re_search("open", line)
       THEN LET o1 == IF o.open THEN empty(o) ELSE o
                o2 == open_file(o1)
            IN [err |-> FALSE,
                o |-> [o2 EXCEPT !.start_date = wt.val, !.wall_time = wt.val]]
       ELSE IF re_search("close", line)
       THEN LET o1 == close_file(o)
            IN IF o1.wall_time.t # "datetime"
               THEN [err |-> TRUE, o |-> o1]
               ELSE LET secs == wt.val.v - o1.wall_time.v
                    IN [err |-> FALSE,
                        o |-> [o1 EXCEPT !.wall_time = FloatV(secs),
                                         !.core_hours = io_core_hours(secs)]]
       ELSE [err |-> FALSE, o |-> o]

EmptyDict == <<>>

\* d[key] = val of a Python dict
DictSet(d, key, val) == (key :> val) @@ d

\* the stored objects, by id
BlockOf(key) == blockHeap[blocks[key]]
EventOf(key) == ioHeap[fileIOs[key]]

\* -------------------------------------------------------------------- main
\* before the first file: no instance, no local bound
Fresh ==
    /\ n_cores = None /\ nodes = None /\ nxb = None /\ nyb = None
    /\ nzb = None /\ n_cells_per_block = None /\ n_cells = None
    /\ blocks = EmptyDict /\ fileIOs = EmptyDict
    /\ chunk = FALSE /\ write = FALSE
    /\ IO_id_counter = 0 /\ block_id_counter = 0
    /\ wall_time_list = 0 /\ dt_list = 0 /\ block = 0 /\ fileIO = 0
    /\ ioHeap = <<>> /\ blockHeap = <<>> /\ listHeap = <<>>

\* turb_log = FLASHLogStats(file, args["debug"]): a new instance; the objects
\* of the previous one are garbage
FLASHLogStats ==
    /\ n_cores' = None /\ nodes' = None /\ nxb' = None /\ nyb' = None
    /\ nzb' = None /\ n_cells_per_block' = None /\ n_cells' = None
    /\ blocks' = EmptyDict /\ fileIOs' = EmptyDict
    /\ chunk' = FALSE /\ write' = FALSE
    /\ IO_id_counter' = 0 /\ block_id_counter' = 0
    /\ wall_time_list' = 0 /\ dt_list' = 0 /\ block' = 0 /\ fileIO' = 0
    /\ ioHeap' = <<>> /\ blockHeap' = <<>> /\ listHeap' = <<>>

InitWith(Args) ==
    /\ args \in Args
    /\ pc = "main" /\ fidx = 0 /\ file = <<>> /\ cnt = 0
    /\ Fresh
    /\ csv = <<>>

\* for file in args["file"]: turb_log = FLASHLogStats(file, ...), then
\* compute_sim_parameters opens the file.  The file starts with one of
\* FileHeaders; its other lines are read as the scan goes.
MainNext(FileHeaders) ==
    /\ pc = "main"
    /\ IF fidx < args.nfile
       THEN /\ fidx' = fidx + 1
            /\ \E h \in FileHeaders : file' = h
            /\ cnt' = 1
            /\ pc' = "scan"
            /\ FLASHLogStats
       ELSE /\ pc' = "exit"
            /\ UNCHANGED <<fidx, file, cnt, params, ioState, blockState>>
    /\ UNCHANGED <<args, csv>>

\* ----------------------------------------------------- compute_sim_parameters
\* a later line overwriting a field already found
LastWins(cur, res) ==
    IF res.val # None \/ res.err THEN res ELSE [err |-> FALSE, val |-> cur]

\* `if self.<field> is None:` a field is searched for only while it is None;
\* cur is the field, res what the search of this line gives
FirstWins(cur, res) ==
    IF cur = None THEN res ELSE [err |-> FALSE, val |-> cur]

\* one iteration of the while loop on a line
ScanLine(line) ==
    LET c == FirstWins(n_cores, search_core_count(line))
        x == FirstWins(nxb, search_block_cell_count(line, "xz"))
        y == FirstWins(nyb, search_block_cell_count(line, "yz"))
        z == FirstWins(nzb, search_block_cell_count(line, "zz"))
    IN IF c.err \/ x.err \/ y.err \/ z.err
       THEN /\ pc' = "crash"
            /\ UNCHANGED <<cnt, params>>
       ELSE /\ n_cores' = c.val
            /\ nodes' = IF c.val = None THEN None
                        ELSE Rat(c.val.v, n_cores_per_node)
            /\ nxb' = x.val /\ nyb' = y.val /\ nzb' = z.val
            /\ cnt' = cnt + 1
            /\ UNCHANGED <<pc, n_cells_per_block, n_cells>>

\* The scan reads the next line: a line already known, or a new line of the
\* file drawn from Input while the file is shorter than maxlen.
ScanStep(Input, maxlen) ==
    /\ pc = "scan"
    /\ \E line \in IF cnt <= Len(file) THEN {file[cnt]}
                   ELSE IF Len(file) < maxlen THEN Input ELSE {} :
          /\ file' = IF cnt <= Len(file) THEN file ELSE Append(file, line)
          /\ ScanLine(line)
    /\ UNCHANGED <<args, fidx, ioState, blockState, csv>>

\* self.n_cells_per_block = self.nxb * self.nyb * self.nzb
cells_per_block(x, y, z) == x * y * z

\* self.n_cells = self.n_cells_per_block * self.n_cores
total_cells(cpb, cores) == cpb * cores

\* only the cell counts checked: a missing core count goes unnoticed
scan_fails_CellsOnly(x, y, z, cores) ==
    x = None \/ y = None \/ z = None

\* the two products raise TypeError when an operand is None
scan_fails(x, y, z, cores) ==
    x = None \/ y = None \/ z = None \/ cores = None

\* End of the scan's file: the two products (a TypeError when an operand is
\* None), then main() enters deconstruct_log_file, which binds its locals
\* and opens the file again.
ScanEOF ==
    /\ pc = "scan"
    /\ cnt = Len(file) + 1
    /\ IF scan_fails(nxb, nyb, nzb, n_cores)
       THEN /\ pc' = "crash"
            /\ UNCHANGED <<cnt, params, ioState, blockState>>
       ELSE /\ n_cells_per_block' = IntV(cells_per_block(nxb.v, nyb.v, nzb.v))
            /\ n_cells' = IntV(total_cells(cells_per_block(nxb.v, nyb.v, nzb.v),
                                           n_cores.v))
            /\ pc' = "pass"
            /\ cnt' = 1
            /\ chunk' = FALSE /\ write' = FALSE
            /\ IO_id_counter' = 0 /\ block_id_counter' = 0
            /\ listHeap' = <<<<>>, <<>>>>
            /\ wall_time_list' = 1 /\ dt_list' = 2
            /\ UNCHANGED <<n_cores, nodes, nxb, nyb, nzb, block, fileIO,
                           blocks, fileIOs, ioHeap, blockHeap>>
    /\ UNCHANGED <<args, fidx, file, csv>>

\* ------------------------------------------------------ deconstruct_log_file
\* fileIO.file_type of an event that has just closed, from the labels found
\* on the line being read
file_type_of(line) ==
    IF re_search("chk", line) THEN "chk"
    ELSE IF re_search("plt", line) THEN "plt"
    ELSE ""

\* fileIO.wall_time_norm = fileIO.wall_time / self.n_cells_per_block
wall_time_norm_of(secs, cpb) == Rat(secs, cpb)

\* the object of the previous event taken again for the next event
new_fileIO_Reuse(heap, cur) == IF cur = 0 THEN Len(heap) + 1 ELSE cur

\* fileIO = FLASHLogFileIO(IO_id_counter): the local is bound to a new
\* object, whatever it referred to (cur) before
new_fileIO(heap, cur) == Len(heap) + 1

\* the heap once the object o is what the reference ref refers to
HeapPut(heap, ref, o) ==
    IF ref = Len(heap) + 1 THEN Append(heap, o) ELSE [heap EXCEPT ![ref] = o]

\* The file-I/O tracker on one line (the body of `if args["file_writes"]`):
\* the tracker's state afterwards, err when an exception escapes.
IOTrack(line) ==
    LET same == [err |-> FALSE, write |-> write, fileIO |-> fileIO,
                 IO_id_counter |-> IO_id_counter, fileIOs |-> fileIOs,
                 ioHeap |-> ioHeap]
    IN IF ~args.file_writes THEN same
       ELSE IF ~(re_search("chk", line) \/ re_search("plt", line)) THEN same
       ELSE IF write
       THEN LET r == search_file_write_stats(line, ioHeap[fileIO])
            IN IF r.err THEN [same EXCEPT !.err = TRUE]
               ELSE IF r.o.close
               THEN IF n_cells_per_block.v = 0
                    THEN [same EXCEPT !.err = TRUE]
                    ELSE LET o == [r.o EXCEPT
                                     !.file_type = file_type_of(line),
                                     !.wall_time_norm =
                                         wall_time_norm_of(r.o.wall_time.v,
                                                           n_cells_per_block.v)]
                         IN [err |-> FALSE, write |-> FALSE, fileIO |-> fileIO,
                             IO_id_counter |-> IO_id_counter + 1,
                             fileIOs |-> DictSet(fileIOs, IO_id_counter, fileIO),
                             ioHeap |-> [ioHeap EXCEPT ![fileIO] = o]]
               ELSE [same EXCEPT !.ioHeap = [ioHeap EXCEPT ![fileIO] = r.o]]
       ELSE LET r == search_file_write_stats(line, FLASHLogFileIO(IO_id_counter))
            IN IF r.err THEN [same EXCEPT !.err = TRUE]
               ELSE [same EXCEPT !.write = TRUE,
                                 !.fileIO = new_fileIO(ioHeap, fileIO),
                                 !.ioHeap = HeapPut(ioHeap,
                                               new_fileIO(ioHeap, fileIO), r.o)]

\* end_line = cnt: the line that ended the block counted into it
end_line_of_Cnt(c) == c

\* block.end_line = cnt-1
end_line_of(c) == c - 1

\* n_steps counting the step lines instead of the transitions
n_steps_of_Lines(end_line, start_line) == end_line - start_line + 1

\* block.n_steps = block.end_line - block.start_line
n_steps_of(end_line, start_line) == end_line - start_line

\* the wall-clock span of a block, not multiplied by the core count
block_core_hours_NoCores(end_date, start_date, cores) == end_date - start_date

\* block.core_hours = (block.end_date - block.start_date) * self.n_cores,
\* a timedelta, in seconds
block_core_hours(end_date, start_date, cores) == (end_date - start_date) * cores

\* process_block_statistics: the block object b afterwards; times is the
\* content of wall_time_list, wref and dref the two lists' references
process_block_statistics(b, times, c, wref, dref) ==
    LET end_date == times[Len(times)]
        end_line == end_line_of(c)
        steps_per_time_secs == np_diff(times)
        avg == np_mean(steps_per_time_secs)
        var == np_var(steps_per_time_secs)
    IN [b EXCEPT
          !.end_date = DateTime(end_date),
          !.end_line = end_line,
          !.n_steps = n_steps_of(end_line, b.start_line),
          !.wall_time = wref,
          !.dt = dref,
          !.core_hours = block_core_hours(end_date, b.start_date.v, n_cores.v),
          !.avg_wall_time_diff = avg,
          !.std_wall_time_diff = var,
          !.avg_wall_time_norm = FloatDiv(avg, n_cells_per_block.v),
          !.std_wall_time_norm =
              FloatDiv(var, n_cells_per_block.v * n_cells_per_block.v)]

\* BlockEvent without the else branch that finalizes the open block
BlockEvent_NoEnd(isStep, inChunk) ==
    IF isStep THEN "step" ELSE "skip"

\* what the block tracker does with a line: "step" appends it to the block,
\* "end" finalizes the open block, "skip" does nothing
BlockEvent(isStep, inChunk) ==
    IF isStep THEN "step" ELSE IF inChunk THEN "end" ELSE "skip"

\* The block tracker on one line (the body of `if args["blocks"]`).
BlockTrack(line) ==
    LET same == [err |-> FALSE, chunk |-> chunk, block |-> block,
                 block_id_counter |-> block_id_counter, blocks |-> blocks,
                 blockHeap |-> blockHeap, wall_time_list |-> wall_time_list,
                 dt_list |-> dt_list, listHeap |-> listHeap]
    IN IF ~args.blocks THEN same
       ELSE LET sw == search_walltime(line)
                ev == BlockEvent(sw.wall_time # None, chunk)
            IN IF sw.err THEN [same EXCEPT !.err = TRUE]
               ELSE IF ev = "step"
               THEN LET opened == ~chunk
                        b == [FLASHLogBlock(block_id_counter) EXCEPT
                                !.start_date = sw.wall_time, !.start_line = cnt]
                    IN [same EXCEPT
                          !.chunk = TRUE,
                          !.block = IF opened THEN Len(blockHeap) + 1 ELSE block,
                          !.blockHeap = IF opened THEN Append(blockHeap, b)
                                        ELSE blockHeap,
                          !.listHeap = [listHeap EXCEPT
                              ![wall_time_list] = Append(@, sw.wall_time.v),
                              ![dt_list] = Append(@, sw.dt.v)]]
               ELSE IF ev = "end"
               THEN LET b == process_block_statistics(blockHeap[block],
                                 listHeap[wall_time_list], cnt,
                                 wall_time_list, dt_list)
                    IN [same EXCEPT
                          !.chunk = FALSE,
                          !.blockHeap = [blockHeap EXCEPT ![block] = b],
                          !.blocks = DictSet(blocks, block_id_counter, block),
                          !.block_id_counter = block_id_counter + 1,
                          !.wall_time_list = Len(listHeap) + 1,
                          !.dt_list = Len(listHeap) + 2,
                          !.listHeap = listHeap \o <<<<>>, <<>>>>]
               ELSE same

\* One iteration of the while loop: the file-I/O tracker, then the block
\* tracker, then cnt += 1.  An exception in either ends the program.
RegionLine ==
    /\ pc = "pass"
    /\ cnt <= Len(file)
    /\ \E io \in {IOTrack(file[cnt])}, bl \in {BlockTrack(file[cnt])} :
          IF io.err
          THEN /\ pc' = "crash"
               /\ UNCHANGED <<cnt, ioState, blockState>>
          ELSE /\ write' = io.write /\ fileIO' = io.fileIO
               /\ IO_id_counter' = io.IO_id_counter
               /\ fileIOs' = io.fileIOs /\ ioHeap' = io.ioHeap
               /\ IF bl.err
                  THEN /\ pc' = "crash"
                       /\ UNCHANGED <<cnt, blockState>>
                  ELSE /\ chunk' = bl.chunk /\ block' = bl.block
                       /\ block_id_counter' = bl.block_id_counter
                       /\ blocks' = bl.blocks /\ blockHeap' = bl.blockHeap
                       /\ wall_time_list' = bl.wall_time_list
                       /\ dt_list' = bl.dt_list /\ listHeap' = bl.listHeap
                       /\ cnt' = cnt + 1
                       /\ UNCHANGED pc
    /\ UNCHANGED <<args, fidx, file, params, csv>>

\* readline returns '' at the end of the file: the loop ends and
\* deconstruct_log_file returns; main() goes on to create_dataset
RegionEOF ==
    /\ pc = "pass"
    /\ cnt = Len(file) + 1
    /\ pc' = "export"
    /\ UNCHANGED <<args, fidx, file, cnt, params, ioState, blockState, csv>>

\* ------------------------------------------------------------ create_dataset
\* the row of a block: core_hours.total_seconds()/seconds_per_hour
block_row(b) ==
    [entry_type |-> "block", id |-> b.block_id,
     core_hrs |-> Rat(b.core_hours, seconds_per_hour),
     n_steps |-> b.n_steps, avg_wall_time_per_step |-> b.avg_wall_time_diff,
     avg_wall_time_norm |-> b.avg_wall_time_norm,
     std_wall_time_norm |-> b.std_wall_time_norm,
     start_date |-> b.start_date]

\* the row of a file-I/O event
fileIO_row(o) ==
    [entry_type |-> "fileIO", id |-> o.file_type, core_hrs |-> o.core_hours,
     n_steps |-> 0, avg_wall_time_per_step |-> o.wall_time,
     avg_wall_time_norm |-> o.wall_time_norm, std_wall_time_norm |-> 0,
     start_date |-> o.start_date]

\* the rows of the first n entries of an insertion-ordered dict whose keys
\* are 0, 1, ...
RECURSIVE block_rows(_)
block_rows(n) ==
    IF n = 0 THEN <<>>
    ELSE Append(block_rows(n - 1), block_row(BlockOf(n - 1)))

RECURSIVE fileIO_rows(_)
fileIO_rows(n) ==
    IF n = 0 THEN <<>>
    ELSE Append(fileIO_rows(n - 1), fileIO_row(EventOf(n - 1)))

\* create_dataset: pandas.concat of an empty list raises ValueError;
\* otherwise the data frames are written and main() takes the next file
create_dataset ==
    /\ pc = "export"
    /\ IF \/ (args.blocks /\ blocks = EmptyDict)
          \/ (args.file_writes /\ fileIOs = EmptyDict)
       THEN /\ pc' = "crash"
            /\ UNCHANGED csv
       ELSE /\ pc' = "main"
            /\ csv' = Append(csv,
                 [file |-> fidx,
                  block_rows |-> IF args.blocks THEN block_rows(block_id_counter)
                                ELSE <<>>,
                  fileIO_rows |-> IF args.file_writes THEN fileIO_rows(IO_id_counter)
                                 ELSE <<>>])
    /\ UNCHANGED <<args, fidx, file, cnt, params, ioState, blockState>>

\* ------------------------------------------------------------- the log lines
Plain == <<Word>>
ParamLine(label, n) == <<Tok(label, 0), Tok("int", n)>>
\* " [ 01-<dd>-2022 <time> ] step: n=1 t=... dt=..."
StepLine(dd, secs) ==
    <<Tok("date", dd), Tok("time", secs), Word, Tok("n", 1), Tok("dt", 1)>>
\* a step line that lost its timestamp
MalformedStep == <<Word, Tok("n", 1), Tok("dt", 1)>>
\* a step line that lost its dt
StepNoDt == <<Tok("date", 1), Tok("time", 25), Word, Tok("n", 1)>>
\* " [ 01-<dd>-2022 <time> ] [IO_write...] open: ..." or "close: ..."
IOLine(label, marker, dd, secs) ==
    <<Tok("date", dd), Tok("time", secs), Tok(label, 0), Tok(marker, 0), Word>>

\* a write-routine line with a timestamp and neither "open:" nor "close:"
LabelOnly(label, dd, secs) ==
    <<Tok("date", dd), Tok("time", secs), Tok(label, 0), Word>>
\* a write-routine line with neither timestamp nor marker
LabelNoClock(label) == <<Tok(label, 0), Word>>
\* an "open:" or "close:" line of another routine
MarkerOnly(marker, dd, secs) ==
    <<Tok("date", dd), Tok("time", secs), Word, Tok(marker, 0)>>

ParamLabels == {"mpi", "xz", "yz", "zz"}

Header96 ==
    <<ParamLine("mpi", 96), ParamLine("xz", 16), ParamLine("yz", 16),
      ParamLine("zz", 16)>>
Header48 ==
    <<ParamLine("mpi", 48), ParamLine("xz", 8), ParamLine("yz", 8),
      ParamLine("zz", 8)>>
\* Header48 with a plain line in place of its i-th line
HeaderWithout(i) ==
    SubSeq(Header48, 1, i - 1) \o <<Plain>> \o SubSeq(Header48, i + 1, Len(Header48))

\* the headers of the files of Spec, SpecScan, SpecMissing and SpecBatch
Headers == {Header96}
ScanHeaders == {<<>>}
MissingHeaders == {Header48} \cup {HeaderWithout(i) : i \in 1..Len(Header48)}
BatchHeaders == {Header48, HeaderWithout(1)}
\* the header of the files of SpecIO
IOHeaders == {Header48}

\* the lines after the header of the files of Spec
BodyLines ==
    {Plain, StepLine(1, 10), StepLine(1, 25),
     IOLine("chk", "open", 1, 86390), IOLine("chk", "open", 2, 0),
     IOLine("chk", "close", 2, 10), IOLine("plt", "close", 1, 86390)}

\* the lines of the files of SpecScan
ScanLines ==
    {ParamLine(l, 16) : l \in {"xz", "yz", "zz"}}
    \cup {ParamLine(l, 8) : l \in {"xz", "yz", "zz"}}
    \cup {ParamLine("mpi", 96), ParamLine("mpi", 48)}

\* the lines after the header of the files of SpecMissing
BatchLines ==
    {Plain, StepLine(1, 10), MalformedStep, StepNoDt,
     IOLine("chk", "open", 1, 86390), IOLine("chk", "close", 2, 10)}

\* the lines after the header of the files of SpecBatch
BatchBodyLines == BatchLines \ {Plain, StepNoDt}

\* the lines after the header of the files of SpecIO
IOEdgeLines ==
    {LabelOnly("chk", 1, 10), LabelNoClock("plt"),
     MarkerOnly("open", 1, 10), MarkerOnly("close", 1, 25),
     IOLine("chk", "open", 1, 10), IOLine("plt", "close", 1, 25)}

\* ----------------------------------------------------------- specifications
\* one file, a full header, every combination of -blocks and -file_writes
Init ==
    InitWith([file_writes : BOOLEAN, blocks : BOOLEAN, nfile : {1}])

Next ==
    \/ MainNext(Headers)
    \/ ScanStep(BodyLines, Len(Header96) + MaxBody)
    \/ ScanEOF
    \/ RegionLine
    \/ RegionEOF
    \/ create_dataset

Spec == Init /\ [][Next]_vars

\* one file of parameter lines in any order
InitScan ==
    InitWith([file_writes : {FALSE}, blocks : {FALSE}, nfile : {1}])

NextScan ==
    \/ MainNext(ScanHeaders)
    \/ ScanStep(ScanLines, MaxScan)
    \/ ScanEOF
    \/ RegionLine
    \/ RegionEOF
    \/ create_dataset

SpecScan == InitScan /\ [][NextScan]_vars

\* one file whose header may lack one of the four parameters
InitMissing ==
    InitWith([file_writes : {TRUE}, blocks : {TRUE}, nfile : {1}])

NextMissing ==
    \/ MainNext(MissingHeaders)
    \/ ScanStep(BatchLines, Len(Header48) + MaxBody)
    \/ ScanEOF
    \/ RegionLine
    \/ RegionEOF
    \/ create_dataset

SpecMissing == InitMissing /\ [][NextMissing]_vars

\* a batch of files, some without a core count, some with a malformed step
\* line
InitBatch ==
    InitWith([file_writes : {TRUE}, blocks : {TRUE}, nfile : 1..MaxFiles])

NextBatch ==
    \/ MainNext(BatchHeaders)
    \/ ScanStep(BatchBodyLines, Len(Header48) + MaxBody)
    \/ ScanEOF
    \/ RegionLine
    \/ RegionEOF
    \/ create_dataset

SpecBatch == InitBatch /\ [][NextBatch]_vars

\* one file of write-routine lines with and without markers and of marker
\* lines without a write-routine label, with and without -file_writes
InitIO ==
    InitWith([file_writes : BOOLEAN, blocks : {FALSE}, nfile : {1}])

NextIO ==
    \/ MainNext(IOHeaders)
    \/ ScanStep(IOEdgeLines, Len(Header48) + MaxBody)
    \/ ScanEOF
    \/ RegionLine
    \/ RegionEOF
    \/ create_dataset

SpecIO == InitIO /\ [][NextIO]_vars

\* ================================================================ properties
\* the lines the region pass has consumed so far (none before it starts)
Processed == IF n_cells = None THEN 0 ELSE cnt - 1

\* the first token of a kind on a line that has one
FirstOf(line, kind) ==
    line[CHOOSE i \in 1..Len(line) :
            /\ line[i].k = kind
            /\ \A j \in 1..(i - 1) : line[j].k # kind]

HasClock(line) ==
    (\E i \in 1..Len(line) : line[i].k = "date")
    /\ (\E i \in 1..Len(line) : line[i].k = "time")

\* the wall clock a line shows, in seconds since the start of the month
SecondsOf(line) ==
    (FirstOf(line, "date").v - 1) * SecondsPerDay + FirstOf(line, "time").v

IsStepLine(line) == \E i \in 1..Len(line) : line[i].k = "n"
IOLabels == {"chk", "plt"}
IsIOLine(line) == \E i \in 1..Len(line) : line[i].k \in IOLabels
IsOpenLine(line) ==
    IsIOLine(line) /\ \E i \in 1..Len(line) : line[i].k = "open"
IsCloseLine(line) ==
    /\ IsIOLine(line) /\ ~IsOpenLine(line)
    /\ \E i \in 1..Len(line) : line[i].k = "close"

\* lines a..b of the file are all step lines
IsRun(a, b) == a <= b /\ \A i \in a..b : IsStepLine(file[i])

\* the stored timestamps of a block
TimesOf(b) == listHeap[b.wall_time]

\* C1: a file that ends with a step line leaves, once deconstruct_log_file
\* has returned, a BlockRecord whose end line is the file's last line.
C1_TrailingBlockStored ==
    (pc = "export" /\ args.blocks /\ file # <<>>
        /\ IsStepLine(file[Len(file)]))
    => \E k \in DOMAIN blocks : BlockOf(k).end_line = Len(file)

\* a..b and b+2..d are maximal runs of step lines around the single
\* non-step line b+1, and the pass has consumed the non-step line d+1
TwoRuns(a, b, d) ==
    /\ a <= b /\ b + 2 <= d /\ d + 1 <= Processed
    /\ (a = 1 \/ ~IsStepLine(file[a - 1]))
    /\ ~IsStepLine(file[b + 1])
    /\ ~IsStepLine(file[d + 1])
    /\ IsRun(a, b) /\ IsRun(b + 2, d)

\* C2: with block tracking on, two runs of step lines separated by one
\* non-step line (the second run ended by a non-step line) are stored as
\* two BlockRecords with consecutive ids, each holding the timestamps of
\* its own run only.
C2_InterruptedBlockSplits ==
    args.blocks =>
      \A a \in {i \in 1..Processed : IsStepLine(file[i])} :
        \A b \in a..Processed : \A d \in (b + 2)..(Processed - 1) :
        TwoRuns(a, b, d) =>
          \E k \in DOMAIN blocks :
            /\ k + 1 \in DOMAIN blocks
            /\ BlockOf(k).block_id + 1 = BlockOf(k + 1).block_id
            /\ BlockOf(k).start_line = a /\ BlockOf(k).end_line = b
            /\ BlockOf(k + 1).start_line = b + 2
            /\ BlockOf(k + 1).end_line = d
            /\ TimesOf(BlockOf(k)) =
                 [i \in 1..(b - a + 1) |-> SecondsOf(file[a + i - 1])]
            /\ TimesOf(BlockOf(k + 1)) =
                 [i \in 1..(d - b - 1) |-> SecondsOf(file[b + 1 + i])]

C2_Witness ==
    /\ args.blocks
    /\ \E a, b, d \in 1..Processed :
          TwoRuns(a, b, d) /\ IsIOLine(file[b + 1])
    /\ Cardinality(DOMAIN blocks) >= 2

\* the events a sequence of lines gives when an open replaces the pending
\* open: pending is <<>> or <<seconds of the pending open>>
RECURSIVE LastOpenWins(_, _, _)
LastOpenWins(lines, pending, acc) ==
    IF lines = <<>> THEN acc
    ELSE IF IsOpenLine(Head(lines))
    THEN LastOpenWins(Tail(lines), <<SecondsOf(Head(lines))>>, acc)
    ELSE IF IsCloseLine(Head(lines)) /\ pending # <<>>
    THEN LastOpenWins(Tail(lines), <<>>,
            Append(acc, [open |-> pending[1],
                         secs |-> SecondsOf(Head(lines)) - pending[1]]))
    ELSE LastOpenWins(Tail(lines), pending, acc)

\* C3: an open that arrives while an event awaits its close replaces that
\* event: the store holds one event per completed open..close, with the
\* open timestamp and the duration taken from the last open before the
\* close, and the event being filled is not in the store.
C3_LastOpenWins ==
    args.file_writes =>
      LET expected == LastOpenWins(SubSeq(file, 1, Processed), <<>>, <<>>)
      IN /\ DOMAIN fileIOs = 0..(Len(expected) - 1)
         /\ \A k \in DOMAIN fileIOs :
               /\ EventOf(k).start_date = DateTime(expected[k + 1].open)
               /\ EventOf(k).wall_time = FloatV(expected[k + 1].secs)
         /\ write => \A k \in DOMAIN fileIOs : fileIOs[k] # fileIO

\* an open, a second open at another time, then the close, all consumed
C3_Witness ==
    /\ args.file_writes
    /\ \E i \in 1..Processed :
          /\ i + 2 <= Processed
          /\ IsOpenLine(file[i]) /\ IsOpenLine(file[i + 1])
          /\ SecondsOf(file[i]) # SecondsOf(file[i + 1])
          /\ IsCloseLine(file[i + 2])
    /\ fileIOs # EmptyDict

\* C4: a stored block made of N >= 2 step lines has step count N - 1, which
\* is the length of its timestamp sequence minus one, and its mean is taken
\* over N - 1 deltas (their sum is end - start).
C4_StepCount ==
    \A k \in DOMAIN blocks :
      LET b == BlockOf(k)
          N == Len(TimesOf(b))
      IN N >= 2 =>
           /\ IsRun(b.start_line, b.start_line + N - 1)
           /\ ~IsStepLine(file[b.start_line + N])
           /\ b.n_steps = N - 1
           /\ Len(np_diff(TimesOf(b))) = N - 1
           /\ b.avg_wall_time_diff.den # 0
           /\ b.avg_wall_time_diff.num * (N - 1) =
                (b.end_date.v - b.start_date.v) * b.avg_wall_time_diff.den

C4_Witness ==
    \E k \in DOMAIN blocks :
        /\ Len(TimesOf(BlockOf(k))) >= 3
        /\ BlockOf(k).end_date.v > BlockOf(k).start_date.v

\* the lines of the file that the scan has read
Scanned == IF pc = "scan" THEN cnt - 1 ELSE Len(file)

\* the integer of a parameter line
ValueOf(line) == FirstOf(line, "int").v

\* the value of the first of the lines 1..upto carrying the label
FirstValue(label, upto) ==
    LET hits == {i \in 1..upto : \E j \in 1..Len(file[i]) : file[i][j].k = label}
    IN IF hits = {} THEN None
       ELSE IntV(ValueOf(file[CHOOSE i \in hits : \A h \in hits : i <= h]))

\* C5: each of core count and x-, y-, z-cell count is the value of the first
\* line that yields it, whatever later lines yield; after the scan
\* cells-per-block = x*y*z and total cells = cells-per-block * core count
\* (96 and 16,16,16 give 4096 and 393216).
C5_FirstValueKept ==
    /\ n_cores = FirstValue("mpi", Scanned)
    /\ nxb = FirstValue("xz", Scanned)
    /\ nyb = FirstValue("yz", Scanned)
    /\ nzb = FirstValue("zz", Scanned)
    /\ n_cells # None =>
         /\ n_cells_per_block = IntV(nxb.v * nyb.v * nzb.v)
         /\ n_cells = IntV(n_cells_per_block.v * n_cores.v)
    /\ (n_cells # None /\ n_cores.v = 96 /\ nxb.v = 16
          /\ nyb.v = 16 /\ nzb.v = 16)
         => n_cells_per_block.v = 4096 /\ n_cells.v = 393216

\* 96 and 16,16,16 found although a later line gives another core count
C5_Witness ==
    /\ n_cells # None /\ n_cells.v = 393216
    /\ \E i, j \in 1..Len(file) :
          /\ i < j
          /\ \E t \in 1..Len(file[i]) : file[i][t].k = "mpi"
          /\ \E t \in 1..Len(file[j]) : file[j][t].k = "mpi"
          /\ ValueOf(file[i]) = 96 /\ ValueOf(file[j]) = 48

\* one of the four parameters is on no line of the file
MissingParam ==
    \E l \in ParamLabels :
        \A i \in 1..Len(file) : \A j \in 1..Len(file[i]) : file[i][j].k # l

\* C6: when one of core count, x-, y-, z-cell count is on no line of the
\* file, the scan ends in an error, the region pass does not run and the
\* store stays empty.
C6_MissingParameterAborts ==
    (fidx >= 1 /\ pc # "scan" /\ MissingParam) =>
        /\ pc = "crash"
        /\ n_cells = None /\ Processed = 0
        /\ blocks = EmptyDict /\ fileIOs = EmptyDict
        /\ \A i \in 1..Len(csv) : csv[i].file # fidx

\* the scan failed on a file that has a step line and an open..close pair
C6_Witness ==
    /\ pc = "crash" /\ MissingParam
    /\ \E i \in 1..Len(file) : IsStepLine(file[i]) /\ HasClock(file[i])
    /\ \E i, j \in 1..Len(file) :
          i < j /\ IsOpenLine(file[i]) /\ IsCloseLine(file[j])

\* the program has stopped on a missing parameter or a malformed step line
FatalError ==
    /\ pc = "crash"
    /\ \/ n_cells = None
       \/ /\ cnt <= Len(file)
          /\ IsStepLine(file[cnt]) /\ ~HasClock(file[cnt])

\* C7: a fatal error in one file of a batch aborts that file only: the
\* program does not stop on it while later files remain.
C7_LaterFilesProcessed == FatalError => fidx = args.nfile

\* IO_writeCheckpoint open at 00:00:00, IO_writeCheckpoint close at 00:00:10
ExampleIO == <<IOLine("chk", "open", 2, 0), IOLine("chk", "close", 2, 10)>>

\* the lines 1..n of the file that carry a write-routine label
IOLinesUpTo(n) == SelectSeq(SubSeq(file, 1, n), IsIOLine)

\* C8: a stored event's duration is close - open in seconds, its core-hours
\* are duration / 3600 whatever the core count, its per-cell duration is
\* duration / cells-per-block; an open at 00:00:00 and a close at 00:00:10
\* on checkpoint lines give one event of 10 s and 10/3600 core-hours.
C8_EventDuration ==
    /\ \A k \in DOMAIN fileIOs :
         LET e == EventOf(k)
             cpb == nxb.v * nyb.v * nzb.v
         IN /\ \E i, j \in 1..Processed :
                 /\ i < j /\ IsOpenLine(file[i]) /\ IsCloseLine(file[j])
                 /\ e.start_date = DateTime(SecondsOf(file[i]))
                 /\ e.wall_time =
                      FloatV(SecondsOf(file[j]) - SecondsOf(file[i]))
            /\ e.core_hours.den > 0
            /\ e.core_hours.num * seconds_per_hour =
                 e.wall_time.v * e.core_hours.den
            /\ e.wall_time_norm.den > 0
            /\ e.wall_time_norm.num * cpb = e.wall_time.v * e.wall_time_norm.den
    /\ (args.file_writes /\ IOLinesUpTo(Processed) = ExampleIO)
         => /\ DOMAIN fileIOs = {0}
            /\ EventOf(0).wall_time.t = "float"
            /\ EventOf(0).wall_time.v = 10
            /\ EventOf(0).core_hours.num = 1 /\ EventOf(0).core_hours.den = 360

C8_Witness ==
    /\ args.file_writes
    /\ IOLinesUpTo(Processed) = ExampleIO
    /\ DOMAIN fileIOs = {0}

\* C9: a stored block's core-hours are (end - start) times the core count
\* the scan found, start and end being the timestamps of the block's first
\* and last step line; the exported figure is that span in hours.
C9_BlockCoreHours ==
    /\ \A k \in DOMAIN blocks :
         LET b == BlockOf(k)
         IN /\ IsStepLine(file[b.start_line]) /\ IsStepLine(file[b.end_line])
            /\ b.start_date = DateTime(SecondsOf(file[b.start_line]))
            /\ b.end_date = DateTime(SecondsOf(file[b.end_line]))
            /\ b.core_hours =
                 (SecondsOf(file[b.end_line]) - SecondsOf(file[b.start_line]))
                 * FirstValue("mpi", Len(file)).v
    /\ \A i \in 1..Len(csv) :
         csv[i].file = fidx =>
           \A r \in 1..Len(csv[i].block_rows) :
             LET row == csv[i].block_rows[r]
             IN /\ row.core_hrs.den > 0
                /\ row.core_hrs.num * seconds_per_hour =
                     BlockOf(r - 1).core_hours * row.core_hrs.den

C9_Witness ==
    /\ pc = "main" /\ csv # <<>>
    /\ \E r \in 1..Len(csv[Len(csv)].block_rows) :
          csv[Len(csv)].block_rows[r].core_hrs.num > 0

\* every stored record spans a non-negative time
NonNegativeSpans ==
    /\ \A k \in DOMAIN blocks :
          /\ BlockOf(k).end_date.v >= BlockOf(k).start_date.v
          /\ BlockOf(k).core_hours >= 0
    /\ \A k \in DOMAIN fileIOs :
          /\ EventOf(k).wall_time.v >= 0
          /\ EventOf(k).core_hours.num >= 0

\* C10 as stated: for any input, every stored record spans a non-negative
\* time.
C10_NonNegativeSpans == NonNegativeSpans

\* the clock of line a is not later than that of line b
ClockLeq(a, b) ==
    \/ FirstOf(a, "date").v < FirstOf(b, "date").v
    \/ /\ FirstOf(a, "date").v = FirstOf(b, "date").v
       /\ FirstOf(a, "time").v <= FirstOf(b, "time").v

\* the clocks shown by the lines 1..n never go back
Monotone(n) ==
    \A i \in 1..n : \A j \in (i + 1)..n :
        (HasClock(file[i]) /\ HasClock(file[j]))
            => ClockLeq(file[i], file[j])

\* C10 amended: when the timestamps of the lines read never go back, every
\* stored record spans a non-negative time.
C10_NonNegativeWhenMonotone == NonNegativeSpans \/ ~Monotone(Processed)

\* a block and an event that spans midnight, both of positive length
C10_Witness ==
    /\ Monotone(Processed)
    /\ \E k \in DOMAIN blocks : BlockOf(k).core_hours > 0
    /\ \E k \in DOMAIN fileIOs : EventOf(k).wall_time.v = 20

\* ------------------------------------------------------------ C11 .. C20
\* the pass over the current file is over: it reached the end of the file
\* or an exception ended it
PassEnded == n_cells # None /\ pc # "pass"

\* a step line search_walltime can parse
WellFormedStep(line) ==
    /\ IsStepLine(line) /\ HasClock(line)
    /\ \E i \in 1..Len(line) : line[i].k = "dt"

\* What the block tracker stores when it runs on the lines alone, from line
\* i on: run is <<>> or <<the run of step lines being read>>; it stops at a
\* step line it cannot parse.
RECURSIVE BlocksAlone(_, _, _)
BlocksAlone(i, run, acc) ==
    IF i > Len(file) THEN acc
    ELSE IF IsStepLine(file[i])
    THEN IF ~WellFormedStep(file[i]) THEN acc
         ELSE BlocksAlone(i + 1,
                IF run = <<>>
                THEN <<[start_line |-> i, times |-> <<SecondsOf(file[i])>>]>>
                ELSE <<[run[1] EXCEPT !.times = Append(@, SecondsOf(file[i]))]>>,
                acc)
    ELSE BlocksAlone(i + 1, <<>>,
            IF run = <<>> THEN acc
            ELSE Append(acc, [id |-> Len(acc),
                              start_line |-> run[1].start_line,
                              end_line |-> i - 1,
                              times |-> run[1].times]))

\* What the file-I/O tracker stores when it runs on the lines alone: pending
\* is <<>> (idle), <<-1>> (an event allocated by a line without marker) or
\* <<seconds of the pending open>>; it stops at a line it fails on (no
\* clock, or a close with no open before it).
RECURSIVE EventsAlone(_, _, _)
EventsAlone(lines, pending, acc) ==
    IF lines = <<>> THEN acc
    ELSE IF ~IsIOLine(Head(lines))
    THEN EventsAlone(Tail(lines), pending, acc)
    ELSE IF ~HasClock(Head(lines)) THEN acc
    ELSE IF IsOpenLine(Head(lines))
    THEN EventsAlone(Tail(lines), <<SecondsOf(Head(lines))>>, acc)
    ELSE IF IsCloseLine(Head(lines))
    THEN IF pending = <<>> \/ pending = <<-1>> THEN acc
         ELSE EventsAlone(Tail(lines), <<>>,
                Append(acc, [id |-> Len(acc), open |-> pending[1],
                             secs |-> SecondsOf(Head(lines)) - pending[1]]))
    ELSE EventsAlone(Tail(lines),
                     IF pending = <<>> THEN <<-1>> ELSE pending, acc)

\* the block store and the event store, as sequences in key order
StoredBlocks ==
    [k \in 1..Cardinality(DOMAIN blocks) |->
        [id |-> BlockOf(k - 1).block_id,
         start_line |-> BlockOf(k - 1).start_line,
         end_line |-> BlockOf(k - 1).end_line,
         times |-> TimesOf(BlockOf(k - 1))]]

StoredEvents ==
    [k \in 1..Cardinality(DOMAIN fileIOs) |->
        [id |-> EventOf(k - 1).write_id,
         open |-> EventOf(k - 1).start_date.v,
         secs |-> EventOf(k - 1).wall_time.v]]

\* C11: the trackers do not interact.  Each tracker is a function of the
\* lines, so the blocks of a file are the same with and without -file_writes
\* exactly when, once the pass is over, they are what the block tracker
\* alone gives on the file; likewise the events with and without -blocks.
C11_TrackersIndependent ==
    PassEnded =>
        /\ args.blocks => StoredBlocks = BlocksAlone(1, <<>>, <<>>)
        /\ args.file_writes => StoredEvents = EventsAlone(file, <<>>, <<>>)

\* the same formula with the other tracker switched off: it holds there
C11_EachTrackerAlone ==
    (PassEnded /\ ~(args.blocks /\ args.file_writes)) =>
        /\ args.blocks => StoredBlocks = BlocksAlone(1, <<>>, <<>>)
        /\ args.file_writes => StoredEvents = EventsAlone(file, <<>>, <<>>)

\* the last line of the file with a write-routine label and a marker is an
\* open: the file ends while the tracker awaits a close
OpenAtEOF ==
    LET io == IOLinesUpTo(Len(file))
    IN io # <<>> /\ IsOpenLine(io[Len(io)])

\* C12: when the file ends while an I/O event awaits its close, the event
\* is in the store once deconstruct_log_file has returned.
C12_PendingEventStored ==
    (pc = "export" /\ args.file_writes /\ OpenAtEOF) =>
        LET io == IOLinesUpTo(Len(file))
        IN \E k \in DOMAIN fileIOs :
              EventOf(k).start_date.v = SecondsOf(io[Len(io)])

\* the pass is about to read a line with a step index that search_walltime
\* cannot parse
AtMalformedStep ==
    /\ pc = "pass" /\ cnt <= Len(file)
    /\ IsStepLine(file[cnt]) /\ ~WellFormedStep(file[cnt])

\* C13: with block tracking on, a line with the step index n=<int> but no
\* timestamp or no dt makes the pass fail at that line: the line neither
\* ends the open block (as a non-step line would) nor is appended to it.
C13_MalformedStepFails ==
    [][(AtMalformedStep /\ args.blocks)
          => (pc' = "crash" /\ cnt' = cnt /\ UNCHANGED blockState)]_vars

\* the pass failed on a step line without dt while a block was open
C13_Witness ==
    /\ pc = "crash" /\ n_cells # None /\ args.blocks /\ chunk
    /\ cnt <= Len(file) /\ file[cnt] = StepNoDt
    /\ Len(listHeap[wall_time_list]) >= 1

\* C14: at every point of the pass the keys of the block store are 0..k-1
\* and those of the event store 0..m-1, every stored record carries its key
\* as its id (a re-opened event too), and block k+1 starts after the line
\* block k ends on.
C14_KeysAndIds ==
    /\ DOMAIN blocks = 0..(Cardinality(DOMAIN blocks) - 1)
    /\ DOMAIN fileIOs = 0..(Cardinality(DOMAIN fileIOs) - 1)
    /\ Cardinality(DOMAIN blocks) = block_id_counter
    /\ Cardinality(DOMAIN fileIOs) = IO_id_counter
    /\ \A k \in DOMAIN blocks : BlockOf(k).block_id = k
    /\ \A k \in DOMAIN fileIOs : EventOf(k).write_id = k
    /\ \A k \in DOMAIN blocks :
          (k + 1) \in DOMAIN blocks =>
              BlockOf(k + 1).start_line > BlockOf(k).end_line

\* a block and an event that was opened twice before its close are stored
C14_Witness ==
    /\ pc = "pass" /\ args.file_writes /\ args.blocks
    /\ \E i \in 1..Processed :
          /\ i + 2 <= Processed
          /\ IsOpenLine(file[i]) /\ IsOpenLine(file[i + 1])
          /\ IsCloseLine(file[i + 2])
    /\ DOMAIN fileIOs = {0}
    /\ DOMAIN blocks = {0}

\* line c is a close on a write-routine line and no open on such a line
\* came since the close before it (or since the start of the file)
IdleCloseAt(c) ==
    /\ IsCloseLine(file[c])
    /\ ~\E i \in 1..(c - 1) :
          /\ IsOpenLine(file[i])
          /\ \A j \in (i + 1)..(c - 1) : ~IsCloseLine(file[j])

\* the flags of the event objects and of the stored events
EventFlags ==
    /\ \A i \in 1..Len(ioHeap) : ~(ioHeap[i].open /\ ioHeap[i].close)
    /\ \A k \in DOMAIN fileIOs :
          /\ EventOf(k).close /\ ~EventOf(k).open
          /\ \E i, j \in 1..Processed :
                /\ i < j /\ IsOpenLine(file[i]) /\ IsCloseLine(file[j])
                /\ EventOf(k).start_date = DateTime(SecondsOf(file[i]))
    /\ \A k1, k2 \in DOMAIN fileIOs : k1 # k2 => fileIOs[k1] # fileIOs[k2]

\* C15: no event object is ever both open and closed; a stored event is
\* closed, not open, and was opened by an earlier line than the one that
\* closed it; no event is stored twice; a close that arrives while the
\* tracker is idle stores nothing.
C15_OpenThenClosedOnce ==
    /\ []EventFlags
    /\ [][(pc = "pass" /\ args.file_writes /\ cnt <= Len(file)
             /\ IdleCloseAt(cnt)) => fileIOs' = fileIOs]_vars

\* an event is stored and the pass has stopped on a close that came while
\* the tracker was idle
C15_Witness ==
    /\ pc = "crash" /\ n_cells # None /\ args.file_writes
    /\ cnt <= Len(file) /\ IdleCloseAt(cnt)
    /\ DOMAIN fileIOs = {0}

\* the line has an "open:" or a "close:"
HasMarker(line) ==
    \E i \in 1..Len(line) : line[i].k = "open" \/ line[i].k = "close"

\* the event awaiting its close, <<>> when the tracker is idle
PendingEvent == IF write THEN <<ioHeap[fileIO]>> ELSE <<>>

\* C16: a line of the pass changes the file-I/O tracker's state (idle or
\* awaiting close, the pending event, the event store, the id counter) only
\* if -file_writes is on and the line has both a write-routine label and an
\* "open:" or "close:" marker.
C16_OnlyMarkedLabelLines ==
    [][(/\ pc = "pass" /\ cnt <= Len(file)
        /\ \/ ~args.file_writes
           \/ ~(IsIOLine(file[cnt]) /\ HasMarker(file[cnt])))
         => UNCHANGED <<write, PendingEvent, fileIOs, IO_id_counter>>]_vars

\* the write-routine label of a line that has one
LabelOf(line) ==
    IF \E i \in 1..Len(line) : line[i].k = "chk" THEN "chk" ELSE "plt"

\* the kinds of the events the lines complete, each taken from the line of
\* the most recent open before the close: pending is <<>> or <<the label of
\* the pending open>>
RECURSIVE KindsByOpen(_, _, _)
KindsByOpen(lines, pending, acc) ==
    IF lines = <<>> THEN acc
    ELSE IF IsOpenLine(Head(lines))
    THEN KindsByOpen(Tail(lines), <<LabelOf(Head(lines))>>, acc)
    ELSE IF IsCloseLine(Head(lines)) /\ pending # <<>>
    THEN KindsByOpen(Tail(lines), <<>>, Append(acc, pending[1]))
    ELSE KindsByOpen(Tail(lines), pending, acc)

\* C17: a stored event has the kind (chk or plt) of the write-routine label
\* on the line of its most recent open.
C17_KindFromOpeningLine ==
    args.file_writes =>
        LET kinds == KindsByOpen(SubSeq(file, 1, Processed), <<>>, <<>>)
        IN \A k \in DOMAIN fileIOs :
              k + 1 <= Len(kinds) /\ EventOf(k).file_type = kinds[k + 1]

\* line i is a step line between two non-step lines, the second of them
\* consumed by the pass
SingleStepRun(i) ==
    /\ 1 < i /\ i + 1 <= Processed
    /\ IsStepLine(file[i])
    /\ ~IsStepLine(file[i - 1]) /\ ~IsStepLine(file[i + 1])

\* C18: a run of exactly one step line ended by a non-step line is stored
\* as a block with step count 0, end line = start line, end timestamp =
\* start timestamp, core-hours 0, no deltas, and NaN (denominator 0) for the
\* mean and the std of the deltas and for their per-cell forms.
C18_SingleStepBlock ==
    args.blocks =>
      \A i \in 1..Processed :
        SingleStepRun(i) =>
          \E k \in DOMAIN blocks :
            LET b == BlockOf(k)
            IN /\ b.start_line = i /\ b.end_line = i
               /\ b.n_steps = 0
               /\ TimesOf(b) = <<SecondsOf(file[i])>>
               /\ b.start_date.t = "datetime"
               /\ b.end_date = b.start_date
               /\ b.core_hours = 0
               /\ np_diff(TimesOf(b)) = <<>>
               /\ b.avg_wall_time_diff.den = 0
               /\ b.std_wall_time_diff.den = 0
               /\ b.avg_wall_time_norm.den = 0
               /\ b.std_wall_time_norm.den = 0

\* a one-step block is stored and exported
C18_Witness ==
    /\ pc = "main" /\ csv # <<>> /\ args.blocks
    /\ \E i \in 1..Processed : SingleStepRun(i)
    /\ \E k \in DOMAIN blocks : Len(TimesOf(BlockOf(k))) = 1

\* C19: a stored block covers a maximal run of step lines: it starts on the
\* run's first step line and ends on its last, the line before it and the
\* line after it are not step lines, and no line belongs to two blocks.
C19_MaximalRuns ==
    /\ \A k \in DOMAIN blocks :
          LET b == BlockOf(k)
          IN /\ 1 <= b.start_line /\ b.start_line <= b.end_line
             /\ b.end_line + 1 <= Processed
             /\ IsRun(b.start_line, b.end_line)
             /\ (b.start_line = 1 \/ ~IsStepLine(file[b.start_line - 1]))
             /\ ~IsStepLine(file[b.end_line + 1])
    /\ \A k1, k2 \in DOMAIN blocks :
          k1 # k2 =>
            \/ BlockOf(k1).end_line < BlockOf(k2).start_line
            \/ BlockOf(k2).end_line < BlockOf(k1).start_line

\* a block of two lines is stored and the pass has read on past the line
\* that ended it
C19_Witness ==
    \E k \in DOMAIN blocks :
        /\ BlockOf(k).end_line = BlockOf(k).start_line + 1
        /\ Processed > BlockOf(k).end_line + 1

\* C20: a line of the pass leaves every stored record as it is: the same
\* key, the same object, the same fields, and for a block the same
\* timestamp and dt sequences.
C20_StoreAppendOnly ==
    [][pc = "pass" =>
        /\ \A k \in DOMAIN fileIOs :
              /\ k \in DOMAIN fileIOs'
              /\ fileIOs'[k] = fileIOs[k]
              /\ ioHeap'[fileIOs'[k]] = ioHeap[fileIOs[k]]
        /\ \A k \in DOMAIN blocks :
              /\ k \in DOMAIN blocks'
              /\ blocks'[k] = blocks[k]
              /\ blockHeap'[blocks'[k]] = blockHeap[blocks[k]]
              /\ listHeap'[blockHeap'[blocks'[k]].wall_time]
                    = listHeap[blockHeap[blocks[k]].wall_time]
              /\ listHeap'[blockHeap'[blocks'[k]].dt]
                    = listHeap[blockHeap[blocks[k]].dt]]_vars

\* a block and an event are stored and the pass has gone on: the next block
\* is being filled in a list of its own
C20_Witness ==
    /\ pc = "pass"
    /\ DOMAIN fileIOs = {0} /\ DOMAIN blocks = {0}
    /\ chunk /\ block # blocks[0]
    /\ wall_time_list # BlockOf(0).wall_time
    /\ Len(listHeap[wall_time_list]) = 1

====
